---- MODULE Spec2Model ----
(***************************************************************************)
(* Model of src/features/spectral_features.py: stft, istft and             *)
(* scale_spectrogram.                                                      *)
(*                                                                         *)
(* Durations (framesz, hop) are rationals k/TimeDen seconds, sample rates  *)
(* are positive integers, so framesz*fs is the rational k*fs/TimeDen and   *)
(* int() is truncation toward zero of that rational.  Arrays handed to and *)
(* returned by scipy.signal.stft / istft are modelled by their shape; the  *)
(* samples of a reconstruction are an uninterpreted term over the          *)
(* arguments of the scipy call that produced them.  The product framesz*fs *)
(* is taken exactly, where the code rounds it to a double before int();    *)
(* that rounding is monotone, as int() is.                                 *)
(***************************************************************************)
EXTENDS Integers, Sequences, FiniteSets, TLC

VARIABLES fwd,      \* record of the latest stft call (arguments, locals, result)
          inv,      \* record of the latest istft call
          nlogged,  \* number of records emitted on logging.getLogger(__name__)
          scl,      \* record of the latest scale_spectrogram call
          heap,     \* arrays shared by concurrent callers (by reference)
          callers   \* per caller: the call in progress, its position and locals

vars == <<fwd, inv, nlogged, scl, heap, callers>>

(***************************  bounds  *************************************)
MaxLen == 4       \* signals have 0..MaxLen samples
MaxRate == 2      \* fs in 1..MaxRate
TimeDen == 2      \* durations are multiples of 1/TimeDen seconds
MaxTime == 4      \* durations up to MaxTime/TimeDen seconds
NegTime == 1      \* durations down to -NegTime/TimeDen seconds
MaxFFT == 4       \* explicit fft_size in 1..MaxFFT
MaxRecon == 4     \* explicit recon_size in 0..MaxRecon
MaxFrames == 2    \* rows of a spectrogram handed directly to istft
MaxBins == 4      \* columns of a spectrogram handed directly to istft
MaxLog == 2       \* warnings emitted before the model stops logging calls

(***************************  values  *************************************)
None == <<>>
Some(v) == <<v>>
Val(o) == o[1]

NoError == "none"
ValueError == "ValueError"      \* raised inside scipy.signal
IndexError == "IndexError"      \* raised by X.shape[1] on a 1-d array

NoCall == [called |-> FALSE]

Rates == 1..MaxRate
Times == (0 - NegTime)..MaxTime
FFTSizes == {None} \cup {Some(n) : n \in 1..MaxFFT}
ReconSizes == {None} \cup {Some(n) : n \in 0..MaxRecon}
Lengths == 0..MaxLen

\* Python int() of the rational num/den (den > 0): truncation toward zero.
PyInt(num, den) == IF num >= 0 THEN num \div den ELSE 0 - ((0 - num) \div den)

\* mutant of Samples: int() taken of the seconds before the multiplication
SamplesOfWholeSeconds(k, fs) == PyInt(k, TimeDen) * fs

\* seconds (k/TimeDen) times fs, converted with int()
Samples(k, fs) == PyInt(k * fs, TimeDen)

\* ndarray.T on a shape: reverses the axes (a 1-d array is its own transpose)
Transpose(shape) == [i \in 1..Len(shape) |-> shape[Len(shape) + 1 - i]]

(*********************  scipy.signal.stft / istft  ************************)
\* What scipy.signal.stft(x, fs, window='hann', nperseg, noverlap, nfft,
\* return_onesided) does with a real 1-d signal of n samples (boundary='zeros',
\* padded=True): the shape of Zxx, frequency-major, or the error it raises.
\* An empty signal is returned as empty arrays of its own shape; nperseg larger
\* than the signal is replaced by the signal length (with a Python warning).
ScipyStft(n, nperseg, noverlap, nfft, return_onesided) ==
  IF n = 0 THEN [raised |-> NoError, shape |-> <<0>>]
  ELSE IF nperseg < 1 THEN [raised |-> ValueError, shape |-> <<>>]
  ELSE
    LET seg == IF nperseg > n THEN n ELSE nperseg
        fft == IF nfft = None THEN seg ELSE Val(nfft)
    IN IF fft < seg \/ noverlap >= seg
       THEN [raised |-> ValueError, shape |-> <<>>]
       ELSE
         LET nstep == seg - noverlap
             ext == n + 2 * (seg \div 2)
             nadd == ((0 - (ext - seg)) % nstep) % seg
             nseg == (ext + nadd - noverlap) \div nstep
             nbins == IF return_onesided THEN (fft \div 2) + 1 ELSE fft
         IN [raised |-> NoError, shape |-> <<nbins, nseg>>]

\* What scipy.signal.istft(Zxx, fs, window='hann', nperseg, nfft, noverlap,
\* input_onesided) does with a 2-d Zxx of shape <<bins, frames>> (boundary=True):
\* the reconstructed signal or the error raised.  The samples are the
\* uninterpreted term "of": scipy's result for exactly these arguments.
ScipyIstft(Zxx, fs, nperseg, nfft, noverlap, input_onesided) ==
  LET nseg == Zxx[2]
      n_default == IF input_onesided THEN 2 * (Zxx[1] - 1) ELSE Zxx[1]
      fft == IF nfft = None THEN n_default ELSE Val(nfft)
  IN IF nperseg < 1 \/ fft < nperseg \/ noverlap >= nperseg
     THEN [raised |-> ValueError, x |-> None]
     ELSE
       LET nstep == nperseg - noverlap
           total == nperseg + (nseg - 1) * nstep
           half == nperseg \div 2
           n == IF half = 0 THEN 0 ELSE total - 2 * half
       IN [raised |-> NoError,
           x |-> Some([len |-> n,
                       of |-> <<Zxx, fs, nperseg, nfft, noverlap, input_onesided>>])]

(*******************************  stft  ***********************************)
\* mutant of ReturnOnesided: the flag handed on without the negation
ReturnOnesidedAsGiven(two_sided) == two_sided

\* line 34: return_onesided=not two_sided
ReturnOnesided(two_sided) == ~two_sided

\* mutant of OverlapSamp: a negative overlap replaced by 0
OverlapSampClamped(framesamp, hopsamp) ==
  IF framesamp - hopsamp < 0 THEN 0 ELSE framesamp - hopsamp

\* lines 31 and 57: overlap_samp = framesamp - hopsamp
OverlapSamp(framesamp, hopsamp) == framesamp - hopsamp

stft(x, fs, framesz, hop, two_sided, fft_size) ==
  LET framesamp == Samples(framesz, fs)
      hopsamp == Samples(hop, fs)
      overlap_samp == OverlapSamp(framesamp, hopsamp)
      r == ScipyStft(x, framesamp, overlap_samp, fft_size,
                     ReturnOnesided(two_sided))
  IN [called |-> TRUE, x |-> x, fs |-> fs, framesz |-> framesz, hop |-> hop,
      two_sided |-> two_sided, fft_size |-> fft_size,
      framesamp |-> framesamp, hopsamp |-> hopsamp,
      nperseg |-> framesamp, noverlap |-> overlap_samp,
      raised |-> r.raised,
      X |-> IF r.raised = NoError THEN Transpose(r.shape) ELSE <<>>]

(*******************************  istft  **********************************)
\* mutant of Mismatch: warns whenever recon_size is given
MismatchWheneverGiven(recon_size, n) == recon_size # None

\* line 62: recon_size is not None and recon_size != x.shape[0]
Mismatch(recon_size, n) == recon_size # None /\ Val(recon_size) # n

\* mutant of Returned: the reconstruction cut to recon_size samples
ReturnedTruncated(x, recon_size) ==
  IF recon_size # None /\ Val(recon_size) < x.len
  THEN [x EXCEPT !.len = Val(recon_size)] ELSE x

\* line 66: return x
Returned(x, recon_size) == x

istft(X, fs, recon_size, hop, two_sided, fft_size) ==
  LET args == [called |-> TRUE, X |-> X, fs |-> fs, recon_size |-> recon_size,
               hop |-> hop, two_sided |-> two_sided, fft_size |-> fft_size]
      failed(e) == [framesamp |-> 0, hopsamp |-> 0, nperseg |-> 0,
                    noverlap |-> 0, raised |-> e, x |-> None, warning |-> None]
  IN IF Len(X) < 2
     THEN args @@ failed(IndexError)
     ELSE
       LET framesamp == IF two_sided THEN X[2] ELSE 2 * (X[2] - 1)
           hopsamp == Samples(hop, fs)
           overlap_samp == OverlapSamp(framesamp, hopsamp)
           r == ScipyIstft(Transpose(X), fs, framesamp, fft_size, overlap_samp,
                           ReturnOnesided(two_sided))
           locals == [framesamp |-> framesamp, hopsamp |-> hopsamp,
                      nperseg |-> framesamp, noverlap |-> overlap_samp]
       IN IF r.raised # NoError
          THEN args @@ locals @@ failed(r.raised)
          ELSE args @@ locals @@
               [raised |-> NoError,
                x |-> Some(Returned(Val(r.x), recon_size)),
                warning |-> IF Mismatch(recon_size, Val(r.x).len)
                            THEN Some(<<Val(r.x).len, Val(recon_size)>>)
                            ELSE None]

(******************************  actions  *********************************)
Shapes == {<<f, b>> : f \in 1..MaxFrames, b \in 1..MaxBins}

NoScale == [called |-> FALSE]

Logs(call) == IF call.warning # None THEN 1 ELSE 0

\* The caller holds no result of an earlier call.
Idle == ~fwd.called /\ ~inv.called

\* a caller transforms a signal of x samples
Stft ==
  /\ Idle
  /\ \E x \in Lengths, fs \in Rates, framesz \in Times, hop \in Times,
        two_sided \in BOOLEAN, fft_size \in FFTSizes :
          fwd' = stft(x, fs, framesz, hop, two_sided, fft_size)
  /\ UNCHANGED <<inv, nlogged, scl, heap, callers>>

\* a caller inverts the spectrogram stft returned, with stft's own parameters
IstftOfStft ==
  /\ fwd.called
  /\ fwd.raised = NoError
  /\ \E recon_size \in ReconSizes :
       LET call == istft(fwd.X, fwd.fs, recon_size, fwd.hop, fwd.two_sided,
                         fwd.fft_size)
       IN /\ nlogged + Logs(call) <= MaxLog
          /\ inv' = call
          /\ nlogged' = nlogged + Logs(call)
  /\ UNCHANGED <<fwd, scl, heap, callers>>

\* a caller inverts a spectrogram of its own, with parameters of its own
Istft ==
  /\ Idle
  /\ \E X \in Shapes, fs \in Rates, recon_size \in ReconSizes, hop \in Times,
        two_sided \in BOOLEAN, fft_size \in FFTSizes :
          LET call == istft(X, fs, recon_size, hop, two_sided, fft_size)
          IN /\ nlogged + Logs(call) <= MaxLog
             /\ inv' = call
             /\ nlogged' = nlogged + Logs(call)
  /\ UNCHANGED <<fwd, scl, heap, callers>>

\* the caller drops the arrays it holds; the logger keeps what it emitted
Discard ==
  /\ ~Idle
  /\ fwd' = NoCall
  /\ inv' = NoCall
  /\ UNCHANGED <<nlogged, scl, heap, callers>>

Init ==
  /\ fwd = NoCall
  /\ inv = NoCall
  /\ nlogged = 0
  /\ scl = NoScale
  /\ heap = <<>>
  /\ callers = <<>>

Next == Stft \/ IstftOfStft \/ Istft \/ Discard

Spec == Init /\ [][Next]_vars

(***********************  claims on stft / istft  *************************)
\* The FFT size C1 names: fft_size when given and >= frame_samples, else
\* frame_samples.
ClaimedN(call) ==
  IF call.fft_size # None /\ Val(call.fft_size) >= call.framesamp
  THEN Val(call.fft_size) ELSE call.framesamp

ClaimedBins(call) ==
  IF call.two_sided THEN ClaimedN(call) ELSE (ClaimedN(call) \div 2) + 1

StftReturned == fwd.called /\ fwd.raised = NoError
IstftReturned == inv.called /\ inv.raised = NoError

\* C1 as stated: every stft call that returns, with frame_samples >= 1, yields
\* a 2-d spectrogram with N columns (two_sided) or floor(N/2)+1 columns
\* (one-sided).
C1_BinCountAnySignal ==
  (StftReturned /\ fwd.framesamp >= 1)
    => (Len(fwd.X) = 2 /\ fwd.X[2] = ClaimedBins(fwd))

\* C1 amended: the same, for a non-empty signal that either has at least
\* frame_samples samples or comes with an explicit fft_size >= frame_samples.
C1_BinCount ==
  (/\ StftReturned
   /\ fwd.framesamp >= 1
   /\ fwd.x >= 1
   /\ \/ fwd.x >= fwd.framesamp
      \/ fwd.fft_size # None /\ Val(fwd.fft_size) >= fwd.framesamp)
    => (Len(fwd.X) = 2 /\ fwd.X[2] = ClaimedBins(fwd))

\* C1: a one-sided stft with an FFT padded beyond the frame has returned
C1_Witness ==
  /\ StftReturned
  /\ fwd.framesamp >= 1
  /\ fwd.x >= fwd.framesamp
  /\ ~fwd.two_sided
  /\ fwd.fft_size # None
  /\ Val(fwd.fft_size) > fwd.framesamp
  /\ fwd.X[2] = (Val(fwd.fft_size) \div 2) + 1

\* C2: when istft is called on stft's output with stft's fs, hop, two_sided and
\* fft_size, the framesamp istft derives from the bin count equals stft's
\* framesamp, and so do the two overlaps.
C2_RoundTripFraming ==
  (StftReturned /\ inv.called /\ inv.raised # IndexError)
    => (inv.framesamp = fwd.framesamp /\ inv.noverlap = fwd.noverlap)

\* the call reconstructed a signal whose length recon_size is given and misses
C4_Warned(call) ==
  /\ call.raised = NoError
  /\ call.recon_size # None
  /\ Val(call.recon_size) # Val(call.x).len

\* C4: a step that calls istft emits a record on the logger iff the call
\* reconstructed a signal and recon_size is given and differs from its length;
\* the message names the length and recon_size, and the call still returns the
\* reconstruction.
C4_WarningIffMismatch ==
  [][(inv'.called /\ (inv' # inv \/ nlogged' # nlogged))
       => /\ nlogged' = nlogged + (IF C4_Warned(inv') THEN 1 ELSE 0)
          /\ (inv'.warning # None) <=> C4_Warned(inv')
          /\ C4_Warned(inv') =>
               /\ inv'.warning =
                    Some(<<Val(inv'.x).len, Val(inv'.recon_size)>>)
               /\ inv'.x # None
               /\ inv'.raised = NoError]_vars

\* C4: an istft call has warned about recon_size and returned its signal
C4_Witness ==
  /\ IstftReturned
  /\ inv.recon_size # None
  /\ Val(inv.recon_size) # Val(inv.x).len
  /\ inv.warning # None
  /\ nlogged >= 1

\* C5: the signal istft returns is the same for every recon_size, the other
\* arguments being equal: same length, same samples.
C5_ReconSizeIgnored ==
  IstftReturned =>
    \A r \in ReconSizes :
      LET other == istft(inv.X, inv.fs, r, inv.hop, inv.two_sided,
                         inv.fft_size)
      IN other.raised = NoError /\ other.x = inv.x

\* C5: an istft call given a recon_size shorter than its reconstruction has returned
C5_Witness ==
  /\ IstftReturned
  /\ inv.recon_size # None
  /\ Val(inv.recon_size) < Val(inv.x).len
  /\ nlogged >= 1

\* C8: the noverlap handed to scipy is exactly framesamp - hopsamp, in stft and
\* in istft; it is >= 0 when hop <= framesz, negative exactly when
\* hopsamp > framesamp, and then handed on as it is; the only errors are
\* scipy's.
C8_OverlapUnchecked ==
  /\ fwd.called =>
       /\ fwd.nperseg = Samples(fwd.framesz, fwd.fs)
       /\ fwd.noverlap = Samples(fwd.framesz, fwd.fs) - Samples(fwd.hop, fwd.fs)
       /\ fwd.hop <= fwd.framesz => fwd.noverlap >= 0
       /\ fwd.noverlap < 0 <=> fwd.hopsamp > fwd.framesamp
       /\ fwd.raised \in {NoError, ValueError}
  /\ (inv.called /\ inv.raised # IndexError) =>
       /\ inv.noverlap = inv.framesamp - Samples(inv.hop, inv.fs)
       /\ inv.noverlap < 0 <=> inv.hopsamp > inv.framesamp
       /\ inv.raised \in {NoError, ValueError}

\* C8: stft and istft have both handed a negative noverlap to scipy and returned
C8_Witness ==
  /\ StftReturned
  /\ fwd.noverlap < 0
  /\ IstftReturned
  /\ inv.noverlap < 0

\* the preconditions the specification declares for stft
C10_Preconditions ==
  fwd.called /\ fwd.fs > 0 /\ fwd.framesz > 0 /\ fwd.hop > 0
             /\ fwd.hop <= fwd.framesz

\* a segment and a hop of at least one sample, and an overlap scipy accepts
C10_ValidOverlap ==
  /\ fwd.framesamp >= 1
  /\ fwd.hopsamp >= 1
  /\ 0 <= fwd.noverlap
  /\ fwd.noverlap < fwd.framesamp

\* C10 as stated: fs > 0, framesz > 0 and 0 < hop <= framesz give
\* framesamp >= 1, hopsamp >= 1 and 0 <= overlap < framesamp.
C10_PositiveSampleCounts == C10_Preconditions => C10_ValidOverlap

\* C10 amended: the same when moreover hop (hence framesz) lasts at least one
\* sample period, hop*fs >= 1.
C10_AtLeastOneSample ==
  (C10_Preconditions /\ fwd.hop * fwd.fs >= TimeDen) => C10_ValidOverlap

\* C10: a stft call within the preconditions, with a hop of one sample, has returned
C10_Witness ==
  /\ C10_Preconditions
  /\ fwd.hop * fwd.fs >= TimeDen
  /\ fwd.hop < fwd.framesz
  /\ fwd.hopsamp = 1
  /\ fwd.framesamp > 1
  /\ StftReturned

(**************************  scale_spectrogram  ***************************)
MaxElems == 3     \* spectrograms handed to scale_spectrogram have 1..MaxElems elements
MaxMag == 2       \* their moduli are the squares of 0..MaxMag

\* A complex element is <<re, im>>.  The elements drawn lie on the axes and
\* have a square modulus, so that abs, sqrt and angle are exact.
Elems ==
  {<<0, 0>>} \cup
  UNION {{<<s * s, 0>>, <<0, s * s>>, <<0 - s * s, 0>>, <<0, 0 - s * s>>} :
           s \in 1..MaxMag}

ArrayShapes ==
  {<<n>> : n \in 1..MaxElems} \cup
  {<<f, b>> : f \in 1..MaxElems, b \in 1..MaxElems}

Size(shape) == IF Len(shape) = 1 THEN shape[1] ELSE shape[1] * shape[2]

\* arrays: a shape and the elements in row-major order
Spectrograms ==
  UNION {[shape : {sh}, data : [1..Size(sh) -> Elems]] :
           sh \in {t \in ArrayShapes : Size(t) <= MaxElems}}

\* integer square root of a perfect square
Sqrt(n) == CHOOSE r \in 0..n : r * r = n

\* np.abs of one element
Abs(z) == Sqrt(z[1] * z[1] + z[2] * z[2])

\* np.angle of one element, in quarter turns (pi = 2): in (-2, 2]
Angle(z) ==
  IF z[2] > 0 THEN 1
  ELSE IF z[2] < 0 THEN 0 - 1
  ELSE IF z[1] < 0 THEN 2 ELSE 0

\* np.unwrap's correction for one difference dd of adjacent phases
PhCorrect(dd) ==
  LET m0 == ((dd + 2) % 4) - 2
      ddmod == IF m0 = 0 - 2 /\ dd > 0 THEN 2 ELSE m0
  IN IF dd < 2 /\ dd > 0 - 2 THEN 0 ELSE ddmod - dd

\* cumulative correction at index i of a row that starts at index first
RECURSIVE CumCorrect(_, _, _)
CumCorrect(p, first, i) ==
  IF i = first THEN 0
  ELSE CumCorrect(p, first, i - 1) + PhCorrect(p[i] - p[i - 1])

\* np.unwrap(p) along the last axis
Unwrap(shape, p) ==
  LET row == shape[Len(shape)]
  IN [i \in 1..Size(shape) |->
        p[i] + CumCorrect(p, i - ((i - 1) % row), i)]

RECURSIVE MaxOf(_, _)
MaxOf(a, n) ==
  IF n = 1 THEN a[1]
  ELSE LET r == MaxOf(a, n - 1) IN IF a[n] > r THEN a[n] ELSE r

RECURSIVE MinOf(_, _)
MinOf(a, n) ==
  IF n = 1 THEN a[1]
  ELSE LET r == MinOf(a, n - 1) IN IF a[n] < r THEN a[n] ELSE r

\* floating-point a / b of numpy: the rational a/b, nan for 0/0, inf for a/0
NaN == [kind |-> "nan", num |-> 0, den |-> 0]
Inf == [kind |-> "inf", num |-> 1, den |-> 0]
\* mutant of Divide: a zero denominator guarded, giving 0
DivideGuarded(a, b) ==
  IF b # 0 THEN [kind |-> "num", num |-> a, den |-> b]
  ELSE [kind |-> "num", num |-> 0, den |-> 1]

Divide(a, b) ==
  IF b # 0 THEN [kind |-> "num", num |-> a, den |-> b]
  ELSE IF a = 0 THEN NaN ELSE Inf

\* mutant of Rescale: divided by the maximum, the minimum not subtracted
RescaleByMax(mag_spec, M, m) ==
  [i \in DOMAIN mag_spec |-> Divide(mag_spec[i], M)]

\* line 77: (mag_spec - m)/(M - m), elementwise
Rescale(mag_spec, M, m) ==
  [i \in DOMAIN mag_spec |-> Divide(mag_spec[i] - m, M - m)]

scale_spectrogram(spectrogram) ==
  LET n == Size(spectrogram.shape)
      mag0 == [i \in 1..n |-> Abs(spectrogram.data[i])]
      phases == Unwrap(spectrogram.shape,
                       [i \in 1..n |-> Angle(spectrogram.data[i])])
      mag_spec == [i \in 1..n |-> Sqrt(mag0[i])]
      M == MaxOf(mag_spec, n)
      m == MinOf(mag_spec, n)
  IN [called |-> TRUE, spectrogram |-> spectrogram, raised |-> NoError,
      mag |-> [shape |-> spectrogram.shape, data |-> Rescale(mag_spec, M, m)],
      phases |-> [shape |-> spectrogram.shape, data |-> phases]]

ScaleSpectrogram ==
  /\ ~scl.called
  /\ \E spectrogram \in Spectrograms : scl' = scale_spectrogram(spectrogram)
  /\ UNCHANGED <<fwd, inv, nlogged, heap, callers>>

\* the caller drops the arrays scale_spectrogram returned
DiscardScaled ==
  /\ scl.called
  /\ scl' = NoScale
  /\ UNCHANGED <<fwd, inv, nlogged, heap, callers>>

NextScale == ScaleSpectrogram \/ DiscardScaled

SpecScale == Init /\ [][NextScale]_vars

(**********************  claims on scale_spectrogram  *********************)
\* compressed magnitudes sqrt(|z|) of the input of the latest call
Compressed == [i \in 1..Size(scl.spectrogram.shape) |->
                 Sqrt(Abs(scl.spectrogram.data[i]))]

ConstantMagnitude ==
  \A i, j \in 1..Size(scl.spectrogram.shape) : Compressed[i] = Compressed[j]

IsZero(q) == q.kind = "num" /\ q.num = 0
IsOne(q) == q.kind = "num" /\ q.num = q.den
InUnit(q) == /\ q.kind = "num"
             /\ \/ q.den > 0 /\ 0 <= q.num /\ q.num <= q.den
                \/ q.den < 0 /\ 0 >= q.num /\ q.num >= q.den
\* q = a/b as rationals
EqualsRatio(q, a, b) == q.kind = "num" /\ b # 0 /\ q.num * b = a * q.den

\* C6: for an input whose magnitudes are not all equal, the scaled array has
\* the input's shape, minimum 0, maximum 1, every element in [0, 1] and equal
\* to (sqrt|z| - m)/(M - m) for the global minimum m and maximum M of sqrt|z|.
C6_ScaledToUnitRange ==
  (scl.called /\ ~ConstantMagnitude) =>
    LET n == Size(scl.spectrogram.shape)
        out == scl.mag.data
        lo == CHOOSE v \in {Compressed[i] : i \in 1..n} :
                \A i \in 1..n : v <= Compressed[i]
        hi == CHOOSE v \in {Compressed[i] : i \in 1..n} :
                \A i \in 1..n : v >= Compressed[i]
    IN /\ scl.raised = NoError
       /\ scl.mag.shape = scl.spectrogram.shape
       /\ DOMAIN out = 1..n
       /\ \A i \in 1..n : InUnit(out[i])
       /\ \E i \in 1..n : IsZero(out[i])
       /\ \E i \in 1..n : IsOne(out[i])
       /\ \A i \in 1..n : EqualsRatio(out[i], Compressed[i] - lo, hi - lo)

\* C6: a spectrogram of three elements or more was scaled to values strictly between 0 and 1 too
C6_Witness ==
  /\ scl.called
  /\ ~ConstantMagnitude
  /\ Size(scl.spectrogram.shape) >= 3
  /\ \E i \in 1..Size(scl.spectrogram.shape) :
       ~IsZero(scl.mag.data[i]) /\ ~IsOne(scl.mag.data[i])

\* C7: for an input of constant magnitude the division by zero is not guarded:
\* nothing is raised, every scaled element is non-finite, and the phases are
\* returned with the input's shape.
C7_ConstantMagnitudeUnguarded ==
  (scl.called /\ ConstantMagnitude) =>
    /\ scl.raised = NoError
    /\ \A i \in 1..Size(scl.spectrogram.shape) : scl.mag.data[i].kind # "num"
    /\ scl.phases.shape = scl.spectrogram.shape
    /\ DOMAIN scl.phases.data = 1..Size(scl.spectrogram.shape)

\* C7: distinct elements of equal magnitude were scaled to nan
C7_Witness ==
  /\ scl.called
  /\ ConstantMagnitude
  /\ Size(scl.spectrogram.shape) >= 2
  /\ scl.mag.data[1] = NaN
  /\ \E i, j \in 1..Size(scl.spectrogram.shape) :
       scl.spectrogram.data[i] # scl.spectrogram.data[j]

(*************************  concurrent callers  ***************************)
\* Several callers run stft, istft and scale_spectrogram at once, each call
\* one statement at a time, on arrays they share by reference: heap.x is a
\* signal (its samples), heap.X a time-major spectrogram.  A caller's record
\* holds the position of its call (the line of the next statement), the
\* arguments, what the argument array held when the call was made (snap), the
\* locals and the returned value.
NumCallers == 2

Callers == 1..NumCallers

ParSignals == {<<0, 1>>, <<1, 0, 1>>}
ParElems == {<<1, 0>>, <<0, 0 - 4>>}
ParSpectrograms == [shape : {<<1, 2>>}, data : [1..2 -> ParElems]]
ParTwoSided == BOOLEAN
ParReconSizes == {None, Some(1)}

IdleCaller == [pc |-> "idle", op |-> "", args |-> <<>>, snap |-> <<>>,
               loc |-> <<>>, ret |-> <<>>]

\* mutant of NpAbs: the magnitudes written into the argument array
NpAbsInPlace(h, id) ==
  LET out == [i \in 1..Size(h[id].shape) |-> Abs(h[id].data[i])]
  IN [heap |-> [h EXCEPT ![id].data = [i \in DOMAIN out |-> <<out[i], 0>>]],
      out |-> out]

\* line 70: mag_spec = np.abs(spectrogram), a new array: the heap after the
\* statement and the array bound to mag_spec
NpAbs(h, id) ==
  [heap |-> h,
   out |-> [i \in 1..Size(h[id].shape) |-> Abs(h[id].data[i])]]

InitPar ==
  /\ fwd = NoCall
  /\ inv = NoCall
  /\ nlogged = 0
  /\ scl = NoScale
  /\ \E x \in ParSignals, X \in ParSpectrograms : heap = [x |-> x, X |-> X]
  /\ callers = [c \in Callers |-> IdleCaller]

Goto(c, rec) ==
  /\ callers' = [callers EXCEPT ![c] = rec]
  /\ UNCHANGED <<fwd, inv, scl>>

\* stft(x, fs, framesz, hop, two_sided) is called on heap.x
CallStft(c) ==
  /\ callers[c].pc = "idle"
  /\ \E two_sided \in ParTwoSided :
       Goto(c, [IdleCaller EXCEPT
                  !.pc = "29", !.op = "stft", !.snap = heap.x,
                  !.args = [fs |-> TimeDen, framesz |-> 2, hop |-> 1,
                            two_sided |-> two_sided, fft_size |-> None]])
  /\ UNCHANGED <<heap, nlogged>>

\* lines 29-31
Stft29(c) ==
  LET me == callers[c]
      framesamp == Samples(me.args.framesz, me.args.fs)
      hopsamp == Samples(me.args.hop, me.args.fs)
  IN /\ me.op = "stft" /\ me.pc = "29"
     /\ Goto(c, [me EXCEPT !.pc = "33",
                   !.loc = [framesamp |-> framesamp, hopsamp |-> hopsamp,
                            overlap_samp |-> OverlapSamp(framesamp, hopsamp)]])
     /\ UNCHANGED <<heap, nlogged>>

\* lines 33-35: scipy reads the signal; X.T is returned
Stft33(c) ==
  LET me == callers[c]
      r == ScipyStft(Len(heap.x), me.loc.framesamp, me.loc.overlap_samp,
                     me.args.fft_size, ReturnOnesided(me.args.two_sided))
  IN /\ me.op = "stft" /\ me.pc = "33"
     /\ Goto(c, [me EXCEPT !.pc = "done",
                   !.ret = [raised |-> r.raised,
                            X |-> IF r.raised = NoError
                                  THEN Transpose(r.shape) ELSE <<>>,
                            of |-> heap.x]])
     /\ UNCHANGED <<heap, nlogged>>

\* istft(X, fs, recon_size, hop, two_sided) is called on heap.X
CallIstft(c) ==
  /\ callers[c].pc = "idle"
  /\ \E recon_size \in ParReconSizes :
       Goto(c, [IdleCaller EXCEPT
                  !.pc = "52", !.op = "istft", !.snap = heap.X,
                  !.args = [fs |-> TimeDen, recon_size |-> recon_size,
                            hop |-> 1, two_sided |-> TRUE,
                            fft_size |-> None]])
  /\ UNCHANGED <<heap, nlogged>>

\* lines 52-57: framesamp from the spectrogram's shape
Istft52(c) ==
  LET me == callers[c]
      framesamp == IF me.args.two_sided THEN heap.X.shape[2]
                   ELSE 2 * (heap.X.shape[2] - 1)
      hopsamp == Samples(me.args.hop, me.args.fs)
  IN /\ me.op = "istft" /\ me.pc = "52"
     /\ Goto(c, [me EXCEPT !.pc = "59",
                   !.loc = [framesamp |-> framesamp, hopsamp |-> hopsamp,
                            overlap_samp |-> OverlapSamp(framesamp, hopsamp)]])
     /\ UNCHANGED <<heap, nlogged>>

\* lines 59-61: scipy reads the spectrogram
Istft59(c) ==
  LET me == callers[c]
      r == ScipyIstft(Transpose(heap.X.shape), me.args.fs, me.loc.framesamp,
                      me.args.fft_size, me.loc.overlap_samp,
                      ReturnOnesided(me.args.two_sided))
  IN /\ me.op = "istft" /\ me.pc = "59"
     /\ Goto(c, IF r.raised = NoError
                THEN [me EXCEPT !.pc = "62",
                        !.loc = [x |-> Val(r.x), of |-> heap.X]]
                ELSE [me EXCEPT !.pc = "done",
                        !.ret = [raised |-> r.raised, x |-> None,
                                 warning |-> None, of |-> heap.X]])
     /\ UNCHANGED <<heap, nlogged>>

\* lines 62-66: the warning, then return x
Istft62(c) ==
  LET me == callers[c]
      warns == Mismatch(me.args.recon_size, me.loc.x.len)
  IN /\ me.op = "istft" /\ me.pc = "62"
     /\ nlogged + (IF warns THEN 1 ELSE 0) <= MaxLog
     /\ nlogged' = nlogged + (IF warns THEN 1 ELSE 0)
     /\ Goto(c, [me EXCEPT !.pc = "done",
                   !.ret = [raised |-> NoError,
                            x |-> Some(Returned(me.loc.x, me.args.recon_size)),
                            warning |-> IF warns
                                        THEN Some(<<me.loc.x.len,
                                                    Val(me.args.recon_size)>>)
                                        ELSE None,
                            of |-> me.loc.of]])
     /\ UNCHANGED heap

\* scale_spectrogram(spectrogram) is called on heap.X
CallScale(c) ==
  /\ callers[c].pc = "idle"
  /\ Goto(c, [IdleCaller EXCEPT !.pc = "70", !.op = "scale",
                                !.snap = heap.X])
  /\ UNCHANGED <<heap, nlogged>>

\* line 70
Scale70(c) ==
  LET me == callers[c]
      r == NpAbs(heap, "X")
  IN /\ me.op = "scale" /\ me.pc = "70"
     /\ heap' = r.heap
     /\ Goto(c, [me EXCEPT !.pc = "71", !.loc = [mag_spec |-> r.out]])
     /\ UNCHANGED nlogged

\* line 71
Scale71(c) ==
  LET me == callers[c]
      n == Size(heap.X.shape)
      phases == Unwrap(heap.X.shape, [i \in 1..n |-> Angle(heap.X.data[i])])
  IN /\ me.op = "scale" /\ me.pc = "71"
     /\ Goto(c, [me EXCEPT !.pc = "73",
                   !.loc = me.loc @@ [shape |-> heap.X.shape,
                                      phases |-> phases]])
     /\ UNCHANGED <<heap, nlogged>>

\* line 73
Scale73(c) ==
  LET me == callers[c]
  IN /\ me.op = "scale" /\ me.pc = "73"
     /\ Goto(c, [me EXCEPT !.pc = "74",
                   !.loc.mag_spec = [i \in DOMAIN me.loc.mag_spec |->
                                       Sqrt(me.loc.mag_spec[i])]])
     /\ UNCHANGED <<heap, nlogged>>

\* lines 74-75
Scale74(c) ==
  LET me == callers[c]
      n == Len(me.loc.mag_spec)
  IN /\ me.op = "scale" /\ me.pc = "74"
     /\ Goto(c, [me EXCEPT !.pc = "77",
                   !.loc = me.loc @@ [M |-> MaxOf(me.loc.mag_spec, n),
                                      m |-> MinOf(me.loc.mag_spec, n)]])
     /\ UNCHANGED <<heap, nlogged>>

\* line 77
Scale77(c) ==
  LET me == callers[c]
  IN /\ me.op = "scale" /\ me.pc = "77"
     /\ Goto(c, [me EXCEPT !.pc = "done",
                   !.ret = [raised |-> NoError,
                            mag |-> [shape |-> me.loc.shape,
                                     data |-> Rescale(me.loc.mag_spec,
                                                      me.loc.M, me.loc.m)],
                            phases |-> [shape |-> me.loc.shape,
                                        data |-> me.loc.phases]]])
     /\ UNCHANGED <<heap, nlogged>>

\* the caller takes the returned value and is free to call again
Return(c) ==
  /\ callers[c].pc = "done"
  /\ Goto(c, IdleCaller)
  /\ UNCHANGED <<heap, nlogged>>

NextPar ==
  \E c \in Callers :
    \/ CallStft(c) \/ Stft29(c) \/ Stft33(c)
    \/ CallIstft(c) \/ Istft52(c) \/ Istft59(c) \/ Istft62(c)
    \/ CallScale(c) \/ Scale70(c) \/ Scale71(c) \/ Scale73(c) \/ Scale74(c)
    \/ Scale77(c)
    \/ Return(c)

SpecPar == InitPar /\ [][NextPar]_vars

(**********************  claim on concurrent callers  *********************)
\* what the call of caller c returns when it runs alone on the arrays as they
\* were when it was made
Alone(me) ==
  IF me.op = "stft"
  THEN LET r == stft(Len(me.snap), me.args.fs, me.args.framesz, me.args.hop,
                     me.args.two_sided, me.args.fft_size)
       IN [raised |-> r.raised, X |-> r.X, of |-> me.snap]
  ELSE IF me.op = "istft"
  THEN LET r == istft(me.snap.shape, me.args.fs, me.args.recon_size,
                      me.args.hop, me.args.two_sided, me.args.fft_size)
       IN [raised |-> r.raised, x |-> r.x, warning |-> r.warning,
           of |-> me.snap]
  ELSE LET r == scale_spectrogram(me.snap)
       IN [raised |-> r.raised, mag |-> r.mag, phases |-> r.phases]

ArgOf(me) == IF me.op = "stft" THEN heap.x ELSE heap.X

\* C9: in every interleaving, no call changes the array it was given, and
\* every finished call has returned what it returns when run alone.
C9_CallsDoNotInterfere ==
  \A c \in Callers :
    /\ callers[c].pc # "idle" => ArgOf(callers[c]) = callers[c].snap
    /\ callers[c].pc = "done" => callers[c].ret = Alone(callers[c])

\* C9: caller 1 has finished scale_spectrogram while caller 2 is inside istft, a warning logged
C9_Witness ==
  /\ callers[1].pc = "done" /\ callers[1].op = "scale"
  /\ \E i \in 1..2 : callers[1].ret.phases.data[i] # 0
  /\ callers[2].pc = "62" /\ callers[2].op = "istft"
  /\ nlogged >= 1

====
